---- MODULE Spec2Model ----
(***************************************************************************)
(* SanitizeAI: the MCP-like dispatch server (McpLikeServer, its HTTP       *)
(* endpoint and the ModelManager it executes tools with), the MCP-like     *)
(* client, the orchestrating flow sanitizeTextWithMCP and the streaming    *)
(* server action getSanitizedTextStreamAction.                             *)
(*                                                                         *)
(* Two specifications:                                                     *)
(*   SpecServer  the class McpLikeServer behind app.post('/mcp'): any      *)
(*               start-up sequence of addTool calls, then any requests.    *)
(*   Spec        the deployed system: the server as started by its module  *)
(*               (four registrations, then listen) and end-to-end          *)
(*               requests running sanitizeTextWithMCP against it.          *)
(***************************************************************************)
EXTENDS Integers, Sequences, FiniteSets, TLC

VARIABLES
    tools,        \* McpLikeServer.tools
    registered,   \* history: the tools passed to addTool, in call order
    listening,    \* createServer(app).listen has run
    configured,   \* ModelManager: which provider clients the constructor built
    srvReq,       \* history: the last body posted to /mcp
    srvHttp,      \* history: the HTTP response to it
    srvRun,       \* history: what handleRequest did for it
    listed,       \* history: the result of the previous tools/list
    flow,         \* per end-to-end request: the state of its pipeline
    geminiText,   \* generateWithTools: response.response.text(), as tokens
    generated     \* generateWithTools: how the call ended

vars == <<tools, registered, listening, configured, srvReq, srvHttp, srvRun, listed, flow,
          geminiText, generated>>

adapterVars == <<geminiText, generated>>
serverVars == <<tools, registered, listening, configured>>
logVars == <<srvReq, srvHttp, srvRun, listed>>

(***************************************************************************)
(* Bounds of the model.                                                    *)
(***************************************************************************)
MaxTools == 2

(***************************************************************************)
(* JavaScript values.                                                      *)
(***************************************************************************)
\* How `undefined` prints in a template string; also stands for a missing
\* string-valued property.
Undefined == "undefined"

\* A missing `provider` property (the destructuring default applies to it).
NoProvider == "<no provider>"

\* x || fallback, for strings
OrElse(x, fallback) == IF x = "" THEN fallback ELSE x

RECURSIVE Join(_, _)
Join(parts, sep) ==
    IF parts = <<>> THEN ""
    ELSE IF Len(parts) = 1 THEN parts[1]
    ELSE parts[1] \o sep \o Join(Tail(parts), sep)

(***************************************************************************)
(* The tool catalogue.                                                     *)
(***************************************************************************)
InputSchema == "z.object({ text: z.string() })"
OutputSchema == "z.object({ sanitizedText: z.string() })"

CanonicalNames == <<"anonymize_pii", "redact_financial", "redact_medical", "general_sanitize">>

Descriptions ==
    [n \in {"anonymize_pii", "redact_financial", "redact_medical", "general_sanitize",
             "custom_tool", "constructor"} |->
        CASE n = "anonymize_pii" -> "Anonymises names, emails, phone numbers, addresses, dates of birth, etc."
          [] n = "redact_financial" -> "Redacts IBAN, credit-card numbers, crypto wallets, sort codes, etc."
          [] n = "redact_medical" -> "Redacts medical record numbers, patient IDs, diagnoses, medications, etc."
          [] n = "general_sanitize" -> "General sanitization for any sensitive information"
          [] OTHER -> "A tool outside the canonical catalogue"]

MakeTool(n) ==
    [name |-> n, description |-> Descriptions[n],
     inputSchema |-> InputSchema, outputSchema |-> OutputSchema]

\* The four server.addTool({...}) statements of the server module, in order.
Registrations == [i \in 1..4 |-> MakeTool(CanonicalNames[i])]

\* The tools a start-up script may pass to addTool (SpecServer).
ToolPool == {MakeTool(n) : n \in {"anonymize_pii", "custom_tool", "constructor"}}

SystemPrompts ==
    [n \in {"anonymize_pii", "redact_financial", "redact_medical", "general_sanitize"} |->
        CASE n = "anonymize_pii" -> "You are a PII anonymiser. Replace all personally identifiable information with appropriate placeholders while maintaining the structure and readability of the text. Return only the anonymised text."
          [] n = "redact_financial" -> "You are a financial-data redactor. Replace all financial information like bank account numbers, credit card numbers, IBANs, crypto wallet addresses, and sort codes with appropriate placeholders while maintaining the structure and readability of the text. Return only the redacted text."
          [] n = "redact_medical" -> "You are a medical data redactor. Replace all medical information like patient IDs, medical record numbers, diagnoses, medications, and other sensitive health information with appropriate placeholders while maintaining the structure and readability of the text. Return only the redacted text."
          [] OTHER -> "You are a general data sanitizer. Replace any sensitive or confidential information with appropriate placeholders while maintaining the structure and readability of the text. This includes but is not limited to names, addresses, phone numbers, emails, IDs, and other personally identifiable information. Return only the sanitized text."]

(***************************************************************************)
(* Error codes of McpResponse.error.code, as handleRequest writes them.    *)
(***************************************************************************)
ToolNotFoundCode == -32601
MethodNotFoundCode == -32601
InternalErrorCode == -32603

(***************************************************************************)
(* McpLikeServer.                                                          *)
(***************************************************************************)
\* Faulty variant of AddTool: unshift instead of push.
AddToolFront(ts, tool) == <<tool>> \o ts

AddTool(ts, tool) == Append(ts, tool)

\* Faulty variant of Find: an unknown name falls back to the first registered tool.
FindOrFirst(ts, name) ==
    IF \E i \in 1..Len(ts) : ts[i].name = name
    THEN CHOOSE i \in 1..Len(ts) :
            /\ ts[i].name = name
            /\ \A j \in 1..(i - 1) : ts[j].name # name
    ELSE IF Len(ts) > 0 THEN 1 ELSE 0

\* this.tools.find(t => t.name === name): the index of the first match, 0 for
\* undefined.
Find(ts, name) ==
    IF \E i \in 1..Len(ts) : ts[i].name = name
    THEN CHOOSE i \in 1..Len(ts) :
            /\ ts[i].name = name
            /\ \A j \in 1..(i - 1) : ts[j].name # name
    ELSE 0

\* this.tools.map(tool => ({name, description, inputSchema, outputSchema}))
Descriptors(ts) ==
    [i \in 1..Len(ts) |->
        [name |-> ts[i].name, description |-> ts[i].description,
         inputSchema |-> ts[i].inputSchema, outputSchema |-> ts[i].outputSchema]]

(***************************************************************************)
(* ModelManager.generateText.  `outcome` is what the provider's API does   *)
(* when it is called: it throws, or it answers with or without content.    *)
(* The value is [threw, message, value, calls], calls being the outbound   *)
(* generation calls made, each with the answer it got.                     *)
(***************************************************************************)
\* Faulty variant of Thrown: a generation call that failed is made once more.
ThrownRetried(msg, calls) ==
    [threw |-> TRUE, message |-> msg, value |-> "", calls |-> calls \o calls]

Thrown(msg, calls) == [threw |-> TRUE, message |-> msg, value |-> "", calls |-> calls]
Returned(v, calls) == [threw |-> FALSE, message |-> "", value |-> v, calls |-> calls]

GeminiPrompt(fullMessages) ==
    Join([i \in 1..Len(fullMessages) |->
            (IF fullMessages[i].role = "system" THEN "System" ELSE "User")
                \o ": " \o fullMessages[i].content],
         "\n\n")

GenerateText(provider, messages, systemPrompt, cfg, outcome) ==
    LET fullMessages ==
            IF systemPrompt # ""
            THEN <<[role |-> "system", content |-> systemPrompt]>> \o messages
            ELSE messages
    IN  CASE provider = "openai" ->
                IF ~cfg.openai THEN Thrown("OpenAI not configured", <<>>)
                ELSE LET call == [provider |-> "openai", model |-> "gpt-3.5-turbo",
                                  prompt |-> fullMessages, answer |-> outcome]
                     IN  IF outcome.kind = "throw" THEN Thrown(outcome.message, <<call>>)
                         ELSE IF outcome.kind = "content"
                              THEN Returned(OrElse(outcome.content, ""), <<call>>)
                              ELSE Returned("", <<call>>)
          [] provider = "gemini" ->
                IF ~cfg.gemini THEN Thrown("Gemini not configured", <<>>)
                ELSE LET call == [provider |-> "gemini", model |-> "gemini-1.5-flash",
                                  prompt |-> GeminiPrompt(fullMessages), answer |-> outcome]
                     IN  IF outcome.kind = "throw" THEN Thrown(outcome.message, <<call>>)
                         ELSE IF outcome.kind = "content"
                              THEN Returned(outcome.content, <<call>>)
                              ELSE Returned("", <<call>>)
          [] OTHER -> Thrown("Unknown provider: " \o provider, <<>>)

(***************************************************************************)
(* McpLikeServer.executeTool.  args is [defined |-> FALSE] for undefined,  *)
(* else [defined |-> TRUE, text |-> the text property or Undefined].       *)
(* The value is [threw, message, value, invoked], invoked being the record *)
(* of this invocation: what it was called with, the generation calls it    *)
(* made and whether (and with what message) it threw.                      *)
(***************************************************************************)
\* The property names every object literal inherits from Object.prototype
\* (those that tools are named after in this model), and how the inherited
\* value reads when it is put into a prompt.
InheritedNames == {"constructor"}
InheritedValue(name) == "function Object() { [native code] }"

\* systemPrompts[tool.name] || systemPrompts['general_sanitize']: the lookup
\* finds the object's own entries and, for other names, what the object
\* inherits; only a name found in neither falls back.
SystemPromptOf(tool) ==
    IF tool.name \in DOMAIN SystemPrompts THEN SystemPrompts[tool.name]
    ELSE IF tool.name \in InheritedNames THEN InheritedValue(tool.name)
    ELSE SystemPrompts["general_sanitize"]

\* executeTool once generateText has settled with g (or was never reached).
Executed(tool, args, provider, g) ==
    [threw |-> g.threw, message |-> g.message,
     value |-> [sanitizedText |-> g.value],
     invoked |-> [tool |-> tool.name, args |-> args, provider |-> provider,
                  systemPrompt |-> SystemPromptOf(tool), calls |-> g.calls,
                  failed |-> g.threw, failure |-> g.message]]

ExecuteTool(tool, args, provider, cfg, outcome) ==
    IF ~args.defined
    THEN Executed(tool, args, provider,
                  Thrown("Cannot read properties of undefined (reading 'text')", <<>>))
    ELSE Executed(tool, args, provider,
                  GenerateText(provider, <<[role |-> "user", content |-> args.text]>>,
                               SystemPromptOf(tool), cfg, outcome))

(***************************************************************************)
(* McpLikeServer.handleRequest.  A request is [method, params]; method is  *)
(* Undefined when missing; params is [defined |-> FALSE] when missing,     *)
(* else [defined |-> TRUE, name, arguments, provider].                     *)
(* Dispatch is the body of the try block: its value is                     *)
(* [threw, message, response, executed], executed being the Executor       *)
(* invocations made; HandleRequest adds the catch clause.                  *)
(***************************************************************************)
Reply(response, executed) ==
    [threw |-> FALSE, message |-> "", response |-> response, executed |-> executed]

Raise(msg, executed) ==
    [threw |-> TRUE, message |-> msg, response |-> [none |-> TRUE], executed |-> executed]

ErrorResponse(code, msg) == [error |-> [code |-> code, message |-> msg]]

\* case 'tools/list'
ToolsList(ts) == [result |-> [tools |-> Descriptors(ts)]]

\* if (!tool) return {error: ...}
ToolNotFound(name) == ErrorResponse(ToolNotFoundCode, "Tool '" \o name \o "' not found")

\* Faulty variant of MethodNotFound: the error is attached to an empty result.
MethodNotFoundWithResult(request) ==
    [result |-> [tools |-> <<>>],
     error |-> [code |-> MethodNotFoundCode,
                message |-> "Method '" \o request.method \o "' not found"]]

\* default:
MethodNotFound(request) ==
    ErrorResponse(MethodNotFoundCode, "Method '" \o request.method \o "' not found")

\* const result = await this.executeTool(...); return { result };
ReturnResult(e) ==
    IF e.threw THEN Raise(e.message, <<e.invoked>>)
    ELSE Reply([result |-> e.value], <<e.invoked>>)

\* const { name, arguments: args, provider = 'openai' } = request.params
ProviderOf(params) == IF params.provider = NoProvider THEN "openai" ELSE params.provider

\* case 'tools/call'
ToolsCall(ts, request, cfg, outcome) ==
    IF ~request.params.defined
    THEN Raise("Cannot destructure property 'name' of 'request.params' as it is undefined.", <<>>)
    ELSE IF Find(ts, request.params.name) = 0
    THEN Reply(ToolNotFound(request.params.name), <<>>)
    ELSE ReturnResult(ExecuteTool(ts[Find(ts, request.params.name)],
                                  request.params.arguments,
                                  ProviderOf(request.params), cfg, outcome))

Dispatch(ts, request, cfg, outcome) ==
    CASE request.method = "tools/list" -> Reply(ToolsList(ts), <<>>)
      [] request.method = "tools/call" -> ToolsCall(ts, request, cfg, outcome)
      [] OTHER -> Reply(MethodNotFound(request), <<>>)

\* Faulty variant of Catch: the message of the failure is dropped.
CatchGeneric(d) ==
    Reply(ErrorResponse(InternalErrorCode, "Internal error"), d.executed)

\* catch (error) { return {error: {code: -32603, message: ...}} }
Catch(d) ==
    Reply(ErrorResponse(InternalErrorCode, OrElse(d.message, "Internal error")), d.executed)

\* try { ... } catch { ... }
TryCatch(d) == IF d.threw THEN Catch(d) ELSE d

HandleRequest(ts, request, cfg, outcome) == TryCatch(Dispatch(ts, request, cfg, outcome))

\* app.post('/mcp', ...): the HTTP response, with what handleRequest did.
Respond(h) ==
    IF h.threw
    THEN [status |-> 500,
          body |-> ErrorResponse(InternalErrorCode, OrElse(h.message, "Internal error")),
          run |-> h]
    ELSE [status |-> 200, body |-> h.response, run |-> h]

\* (const response = await mcpServer.handleRequest(req.body): the response
\* is bound once.)
PostMcp(ts, body, cfg, outcome) ==
    CHOOSE http \in {Respond(response) :
                        response \in {HandleRequest(ts, body, cfg, outcome)}} : TRUE

(***************************************************************************)
(* Inputs of the model.                                                    *)
(***************************************************************************)
Configs == [openai : BOOLEAN, gemini : BOOLEAN]

\* What a provider's API may do with one generation call.
Outcomes ==
    {[kind |-> "content", content |-> "[REDACTED]"],
     [kind |-> "empty"],
     [kind |-> "throw", message |-> "429 rate limit"],
     [kind |-> "throw", message |-> ""]}

NoArgs == [defined |-> FALSE]
NoParams == [defined |-> FALSE]

CallParams(name, args, provider) ==
    [defined |-> TRUE, name |-> name, arguments |-> args, provider |-> provider]

\* The bodies posted to /mcp in SpecServer.
PostedNames == {"anonymize_pii", "custom_tool", "constructor", "no_such_tool"}
PostedArgs == {NoArgs, [defined |-> TRUE, text |-> "Jo"], [defined |-> TRUE, text |-> Undefined]}
PostedProviders == {NoProvider, "gemini", "claude"}
PostedParams ==
    {NoParams} \cup
    {CallParams(n, a, p) : n \in PostedNames, a \in PostedArgs, p \in PostedProviders}
PostedBodies ==
    {[method |-> "tools/call", params |-> p] : p \in PostedParams}
    \cup {[method |-> "tools/list", params |-> p] :
            p \in {NoParams, CallParams("anonymize_pii", NoArgs, NoProvider)}}
    \cup {[method |-> m, params |-> NoParams] : m \in {"resources/list", Undefined}}

NoRequest == [method |-> "<none>", params |-> NoParams]
NoHttp == [status |-> 0, body |-> [none |-> TRUE]]
NoRun == Reply([none |-> TRUE], <<>>)
NotListed == [seen |-> FALSE, tools |-> <<>>]

(***************************************************************************)
(* McpLikeClient.  fetch either rejects (nothing listens, or the network   *)
(* fails), or delivers an HTTP response: the endpoint's, or a 503 of the   *)
(* infrastructure in front of it.  The value carries `run`, what the       *)
(* server did for the request.                                             *)
(***************************************************************************)
NetOutcomes == {"deliver", "reject", "unavailable"}

Delivered(http) ==
    [kind |-> "response", status |-> http.status, body |-> http.body, run |-> http.run]

Fetch(net, isListening, ts, body, cfg, outcome) ==
    IF ~isListening \/ net = "reject"
    THEN [kind |-> "rejected", status |-> 0, body |-> [none |-> TRUE], run |-> NoRun]
    ELSE IF net = "unavailable"
    THEN [kind |-> "response", status |-> 503, body |-> [none |-> TRUE], run |-> NoRun]
    ELSE Delivered(PostMcp(ts, body, cfg, outcome))

\* Faulty variant of ClientResult: an unsuccessful response is read as an
\* empty result instead of being thrown.
ClientResultLenient(http) ==
    IF http.kind = "rejected"
    THEN [threw |-> TRUE, message |-> "fetch failed", value |-> [none |-> TRUE]]
    ELSE IF "result" \in DOMAIN http.body
    THEN [threw |-> FALSE, message |-> "", value |-> http.body.result]
    ELSE [threw |-> FALSE, message |-> "",
          value |-> [tools |-> <<>>, sanitizedText |-> Undefined]]

\* What listTools and callTool do with the outcome of their fetch: throw, or
\* return data.result.
ClientResult(http) ==
    IF http.kind = "rejected"
    THEN [threw |-> TRUE, message |-> "fetch failed", value |-> [none |-> TRUE]]
    ELSE IF ~(http.status >= 200 /\ http.status <= 299)
    THEN [threw |-> TRUE, message |-> "HTTP error! status: " \o ToString(http.status),
          value |-> [none |-> TRUE]]
    ELSE IF "error" \in DOMAIN http.body
    THEN [threw |-> TRUE, message |-> http.body.error.message, value |-> [none |-> TRUE]]
    ELSE [threw |-> FALSE, message |-> "", value |-> http.body.result]

\* The body listTools posts.
ListToolsBody == [method |-> "tools/list", params |-> CallParams(Undefined, NoArgs, NoProvider)]

\* Faulty variant of CallToolBody: the tool named is always general_sanitize.
CallToolBodyGeneral(toolCall, provider) ==
    [method |-> "tools/call",
     params |-> CallParams("general_sanitize", toolCall.arguments, provider)]

\* The body callTool(toolCall, provider = 'openai') posts.
CallToolBody(toolCall, provider) ==
    [method |-> "tools/call",
     params |-> CallParams(toolCall.name, toolCall.arguments, provider)]

(***************************************************************************)
(* The flow sanitizeTextWithMCP inside getSanitizedTextStreamAction.       *)
(***************************************************************************)
StepNames ==
    <<"mcp_connect_start", "mcp_connect_finish", "list_tools", "select_tool",
      "tool_exec_start", "tool_exec_finish">>

Missing == "<missing>"

\* inputSchema.parse(raw): both fields must be strings.
InputSchemaParse(raw) ==
    IF raw.text = Missing
    THEN [ok |-> FALSE, message |-> "[{\"expected\":\"string\",\"received\":\"undefined\",\"path\":[\"text\"],\"message\":\"Required\"}]"]
    ELSE IF raw.sanitizationRequest = Missing
    THEN [ok |-> FALSE, message |-> "[{\"expected\":\"string\",\"received\":\"undefined\",\"path\":[\"sanitizationRequest\"],\"message\":\"Required\"}]"]
    ELSE [ok |-> TRUE, message |-> ""]

\* JSON.parse of the argument strings a selection may carry.
ArgStrings == {"{\"text\":\"Jo\"}", "{\"text\":\"John Smith\"}", "{}", "{\"text\":"}

JSONParse(str) ==
    CASE str = "{\"text\":\"Jo\"}" -> [ok |-> TRUE, message |-> "", value |-> [defined |-> TRUE, text |-> "Jo"]]
      [] str = "{\"text\":\"John Smith\"}" -> [ok |-> TRUE, message |-> "", value |-> [defined |-> TRUE, text |-> "John Smith"]]
      [] str = "{}" -> [ok |-> TRUE, message |-> "", value |-> [defined |-> TRUE, text |-> Undefined]]
      [] OTHER -> [ok |-> FALSE, message |-> "Unexpected end of JSON input", value |-> NoArgs]

NoCall == [name |-> "<none>", arguments |-> ""]

IdleFlow ==
    [pc |-> "idle",
     raw |-> [text |-> Missing, sanitizationRequest |-> Missing, modelProvider |-> NoProvider],
     events |-> <<>>,        \* what the stream carried, in order
     toolList |-> <<>>,      \* the result of listTools
     call |-> NoCall,        \* llmResp.choices[0].message.tool_calls[0]
     selections |-> 0,       \* history: selection calls made
     selection |-> [kind |-> "none"],  \* history: what the selection call settled with
     replies |-> <<>>,       \* history: how each fetch to /mcp settled
     requests |-> <<>>,      \* history: the bodies posted to /mcp
     executed |-> <<>>]      \* history: the Executor invocations they caused

\* onProgress(step) = stream.update({step})
Emit(f, step) == [f EXCEPT !.events = Append(@, [step |-> step])]

\* catch (e) { stream.error(e.message) }
StreamError(f, msg) == [f EXCEPT !.events = Append(@, [error |-> msg]), !.pc = "done"]

\* stream.done({result: out})
StreamDone(f, out) == [f EXCEPT !.events = Append(@, [result |-> out]), !.pc = "done"]

\* The action is called: the flow runs up to `await client.connect()`.
Begin(data) == [Emit(IdleFlow, "mcp_connect_start") EXCEPT !.raw = data, !.pc = "connecting"]

\* connect() resolved: up to the fetch of listTools.
AfterConnect(f) ==
    [Emit(Emit(f, "mcp_connect_finish"), "list_tools") EXCEPT
        !.requests = Append(@, ListToolsBody), !.pc = "listing"]

\* History: how a fetch settled (rejected, or the status and the error of
\* the response).
Settled(http) ==
    [kind |-> http.kind, status |-> http.status,
     error |-> IF "error" \in DOMAIN http.body THEN <<http.body.error>> ELSE <<>>]

\* listTools settled with `result`: up to the selection call.
SelectTool(f, result) ==
    IF result.threw THEN StreamError(f, result.message)
    ELSE LET g == Emit([f EXCEPT !.toolList = result.value.tools], "select_tool")
             parsed == InputSchemaParse(f.raw)
         IN  IF ~parsed.ok THEN StreamError(g, parsed.message)
             ELSE [g EXCEPT !.selections = @ + 1, !.pc = "selecting"]

AfterListTools(f, http) ==
    SelectTool([f EXCEPT !.replies = Append(@, Settled(http))], ClientResult(http))

\* Faulty variant of ExecTool: a response without tool calls falls back to
\* general_sanitize on the selection's own copy of the text.
ExecToolDefault(f, sel) ==
    IF sel.kind = "throw" THEN StreamError(f, sel.message)
    ELSE LET call == IF sel.tool_calls = <<>>
                     THEN [name |-> "general_sanitize", arguments |-> "{\"text\":\"Jo\"}"]
                     ELSE sel.tool_calls[1]
             g == Emit([f EXCEPT !.call = call], "tool_exec_start")
             args == JSONParse(call.arguments)
         IN  IF ~args.ok THEN StreamError(g, args.message)
             ELSE [g EXCEPT
                     !.requests = Append(@, CallToolBody([name |-> call.name, arguments |-> args.value], "openai")),
                     !.pc = "calling"]

\* Faulty variant of ExecTool: the last tool call of the response is taken.
ExecToolLast(f, sel) ==
    IF sel.kind = "throw" THEN StreamError(f, sel.message)
    ELSE IF sel.tool_calls = <<>> THEN StreamError(f, "Model did not call a tool")
    ELSE LET call == sel.tool_calls[Len(sel.tool_calls)]
             g == Emit([f EXCEPT !.call = call], "tool_exec_start")
             args == JSONParse(call.arguments)
         IN  IF ~args.ok THEN StreamError(g, args.message)
             ELSE [g EXCEPT
                     !.requests = Append(@, CallToolBody([name |-> call.name, arguments |-> args.value], "openai")),
                     !.pc = "calling"]

\* The selection call settled with `sel`: up to the fetch of callTool.
ExecTool(f, sel) ==
    IF sel.kind = "throw" THEN StreamError(f, sel.message)
    ELSE IF sel.tool_calls = <<>> THEN StreamError(f, "Model did not call a tool")
    ELSE LET call == sel.tool_calls[1]
             g == Emit([f EXCEPT !.call = call], "tool_exec_start")
             args == JSONParse(call.arguments)
         IN  IF ~args.ok THEN StreamError(g, args.message)
             ELSE [g EXCEPT
                     !.requests = Append(@, CallToolBody([name |-> call.name, arguments |-> args.value], "openai")),
                     !.pc = "calling"]

AfterSelection(f, sel) == ExecTool([f EXCEPT !.selection = sel], sel)

\* Faulty variant of Finish: tool_exec_finish is emitted in a finally block.
FinishFinally(f, result) ==
    IF result.threw THEN StreamError(Emit(f, "tool_exec_finish"), result.message)
    ELSE StreamDone(Emit(f, "tool_exec_finish"),
                    [sanitizedText |-> result.value.sanitizedText,
                     toolUsed |-> f.call.name])

\* Faulty variant of Finish: a failed tools/call is posted once more.
FinishRetry(f, result) ==
    IF result.threw /\ Len(f.requests) < 3
    THEN [f EXCEPT !.requests = Append(@, f.requests[Len(f.requests)])]
    ELSE IF result.threw THEN StreamError(f, result.message)
    ELSE StreamDone(Emit(f, "tool_exec_finish"),
                    [sanitizedText |-> result.value.sanitizedText,
                     toolUsed |-> f.call.name])

\* callTool settled with `result`: to the end of the flow and of the action.
Finish(f, result) ==
    IF result.threw THEN StreamError(f, result.message)
    ELSE StreamDone(Emit(f, "tool_exec_finish"),
                    [sanitizedText |-> result.value.sanitizedText,
                     toolUsed |-> f.call.name])

AfterCallTool(f, http) ==
    Finish([f EXCEPT !.executed = @ \o http.run.executed,
                     !.replies = Append(@, Settled(http))],
           ClientResult(http))

(***************************************************************************)
(* Inputs of the end-to-end requests.                                      *)
(***************************************************************************)
Reqs == {"r1", "r2"}

Inputs ==
    {[text |-> "Jo", sanitizationRequest |-> "Anonymize PII", modelProvider |-> "openai"],
     [text |-> "John Smith", sanitizationRequest |-> "Anonymize PII", modelProvider |-> "gemini"],
     [text |-> Missing, sanitizationRequest |-> "Anonymize PII", modelProvider |-> "openai"],
     [text |-> "Jo", sanitizationRequest |-> Missing, modelProvider |-> "gemini"]}

\* What the selection call may settle with.
SelectedNames == {"anonymize_pii", "no_such_tool"}
ToolCalls == {[name |-> n, arguments |-> a] : n \in SelectedNames, a \in ArgStrings}
Selections ==
    {[kind |-> "throw", message |-> "401 invalid api key"],
     [kind |-> "response", tool_calls |-> <<>>],
     [kind |-> "response",
      tool_calls |-> <<[name |-> "general_sanitize", arguments |-> "{\"text\":\"Jo\"}"],
                       [name |-> "anonymize_pii", arguments |-> "{\"text\":\"Jo\"}"]>>]}
    \cup {[kind |-> "response", tool_calls |-> <<c>>] : c \in ToolCalls}

(***************************************************************************)
(* ModelManager.generateWithTools, provider 'gemini': the tool call is     *)
(* parsed out of the text the model answered with.  The text is a          *)
(* sequence of tokens separated by blanks: braces, code fences, members of *)
(* a JSON object and a bare tool name.                                     *)
(***************************************************************************)
MaxTextLen == 5

LBrace == "{"
RBrace == "}"
FenceJson == "<fence>json"     \* <fence> stands for the three backquotes
Fence == "<fence>"
ToolMember == "\"tool\":\"anonymize_pii\""
OtherToolMember == "\"tool\":\"no_such_tool\""
ToolAndArguments == "\"tool\":\"redact_medical\",\"arguments\":"
BareName == "general_sanitize"

TextTokens ==
    {LBrace, RBrace, FenceJson, Fence, ToolMember, OtherToolMember, ToolAndArguments, BareName}

Texts == UNION {[1..n -> TextTokens] : n \in 0..MaxTextLen}

UserMessages == {"Jo", "John Smith"}

\* The value of the "tool" member a token holds.
MemberTool(tok) ==
    CASE tok = ToolMember -> "anonymize_pii"
      [] tok = OtherToolMember -> "no_such_tool"
      [] tok = ToolAndArguments -> "redact_medical"
      [] OTHER -> Undefined

\* The first of the four names /(anonymize_pii|...|general_sanitize)/ finds
\* in a token.
MentionedTool(tok) ==
    CASE tok = ToolMember -> "anonymize_pii"
      [] tok = ToolAndArguments -> "redact_medical"
      [] tok = BareName -> "general_sanitize"
      [] OTHER -> Undefined

Min(S) == CHOOSE x \in S : \A y \in S : x <= y

NoMatch == [found |-> FALSE, str |-> <<>>]
Match(str) == [found |-> TRUE, str |-> str]

\* text.match(/<fence>json\s*(\{.*?\})\s*<fence>/s): from the leftmost
\* "<fence>json {" that has a "} <fence>" after it, up to the nearest such
\* "}" (the fence that opens another block closes this one as well).
FenceEnds(text, i) ==
    {j \in (i + 2)..(Len(text) - 1) :
        text[j] = RBrace /\ text[j + 1] \in {Fence, FenceJson}}

FenceStarts(text) ==
    {i \in 1..(Len(text) - 1) :
        text[i] = FenceJson /\ text[i + 1] = LBrace /\ FenceEnds(text, i) # {}}

FencedMatch(text) ==
    IF FenceStarts(text) = {} THEN NoMatch
    ELSE Match(SubSeq(text, Min(FenceStarts(text)) + 1,
                      Min(FenceEnds(text, Min(FenceStarts(text))))))

\* text.indexOf('{'), 0 for -1
IndexOfBrace(text) ==
    IF \E i \in 1..Len(text) : text[i] = LBrace
    THEN Min({i \in 1..Len(text) : text[i] = LBrace})
    ELSE 0

BraceDelta(tok) == IF tok = LBrace THEN 1 ELSE IF tok = RBrace THEN -1 ELSE 0

\* for (let i = jsonStart; ...): jsonEnd, or 0 when braceCount never
\* returns to 0.
RECURSIVE BraceScan(_, _, _)
BraceScan(text, i, braceCount) ==
    IF i > Len(text) THEN 0
    ELSE IF braceCount + BraceDelta(text[i]) = 0 THEN i
    ELSE BraceScan(text, i + 1, braceCount + BraceDelta(text[i]))

PlainMatch(text) ==
    IF IndexOfBrace(text) = 0 THEN NoMatch
    ELSE IF BraceScan(text, IndexOfBrace(text), 0) = 0 THEN NoMatch
    ELSE Match(SubSeq(text, IndexOfBrace(text), BraceScan(text, IndexOfBrace(text), 0)))

JsonMatch(text) == IF FencedMatch(text).found THEN FencedMatch(text) ELSE PlainMatch(text)

\* JSON.parse accepts str: an object that is empty, holds one "tool"
\* member, or holds "tool" and an "arguments" member whose value is such an
\* object.
RECURSIVE IsJsonObject(_)
IsJsonObject(str) ==
    /\ Len(str) >= 2
    /\ str[1] = LBrace
    /\ str[Len(str)] = RBrace
    /\ \/ Len(str) = 2
       \/ Len(str) = 3 /\ str[2] \in {ToolMember, OtherToolMember}
       \/ Len(str) >= 5 /\ str[2] = ToolAndArguments
                        /\ IsJsonObject(SubSeq(str, 3, Len(str) - 1))

\* JSON.parse(jsonStr), for a str it accepts: the members read afterwards.
JsonObject(str) ==
    [tool |-> IF Len(str) = 2 THEN Undefined ELSE MemberTool(str[2]),
     arguments |-> IF Len(str) >= 5 THEN SubSeq(str, 3, Len(str) - 1) ELSE <<>>]

\* JSON.stringify(parsed.arguments || {})
StringifyArguments(arguments) == IF arguments = <<>> THEN "{}" ELSE Join(arguments, "")

NotGenerated == [kind |-> "none"]
ToolCallOf(name, arguments) == [kind |-> "call", name |-> name, arguments |-> arguments]
GenerateThrew(msg, asked) == [kind |-> "throw", message |-> msg, answered |-> asked]

\* if (jsonMatch) { ... JSON.parse ... return ... }, with the catch
ParsedCall(text, jsonStr) ==
    IF IsJsonObject(jsonStr)
    THEN ToolCallOf(JsonObject(jsonStr).tool, StringifyArguments(JsonObject(jsonStr).arguments))
    ELSE GenerateThrew("Failed to parse Gemini response: " \o Join(text, " "), TRUE)

\* const toolMatch = text.match(/(anonymize_pii|...)/), 0 for no match
ToolMatch(text) ==
    IF \E i \in 1..Len(text) : MentionedTool(text[i]) # Undefined
    THEN Min({i \in 1..Len(text) : MentionedTool(text[i]) # Undefined})
    ELSE 0

\* The fallback, and the throw behind it.
NamedCall(text, userMessage) ==
    IF ToolMatch(text) # 0
    THEN ToolCallOf(MentionedTool(text[ToolMatch(text)]),
                    "{\"text\":\"" \o userMessage \o "\"}")
    ELSE GenerateThrew("Failed to parse Gemini response: " \o Join(text, " "), TRUE)

\* case 'gemini' of generateWithTools; `answer` is how generateContent
\* settled.
GenerateWithTools(cfg, userMessage, answer, text) ==
    IF ~cfg.gemini THEN GenerateThrew("Gemini not configured", FALSE)
    ELSE IF answer.kind = "throw" THEN GenerateThrew(answer.message, FALSE)
    ELSE IF JsonMatch(text).found THEN ParsedCall(text, JsonMatch(text).str)
    ELSE NamedCall(text, userMessage)

GeminiAnswers == {[kind |-> "text"], [kind |-> "throw", message |-> "503 overloaded"]}

(***************************************************************************)
(* Initial state: the objects as constructed, before the module's          *)
(* registrations.                                                          *)
(***************************************************************************)
Init ==
    /\ tools = <<>>
    /\ registered = <<>>
    /\ listening = FALSE
    /\ configured \in Configs
    /\ srvReq = NoRequest
    /\ srvHttp = NoHttp
    /\ srvRun = NoRun
    /\ listed = NotListed
    /\ flow = [r \in Reqs |-> IdleFlow]
    /\ geminiText = <<>>
    /\ generated = NotGenerated

(***************************************************************************)
(* SpecServer: the class under any start-up script.                        *)
(***************************************************************************)
\* server.addTool(tool), before the server listens
Register(tool) ==
    /\ ~listening
    /\ Len(tools) < MaxTools
    /\ tools' = AddTool(tools, tool)
    /\ registered' = Append(registered, tool)
    /\ UNCHANGED <<listening, configured, logVars, flow, adapterVars>>

\* createServer(app).listen(PORT)
Listen ==
    /\ ~listening
    /\ listening' = TRUE
    /\ UNCHANGED <<tools, registered, configured, logVars, flow, adapterVars>>

Logged(body, http) ==
    /\ srvHttp' = [status |-> http.status, body |-> http.body]
    /\ srvRun' = http.run
    /\ listed' = IF body.method = "tools/list" /\ "result" \in DOMAIN http.body
                 THEN [seen |-> TRUE, tools |-> http.body.result.tools]
                 ELSE listed

\* One POST /mcp, handled to completion.
Post(body, outcome) ==
    /\ listening
    /\ srvReq' = body
    /\ Logged(body, PostMcp(tools, body, configured, outcome))
    /\ UNCHANGED <<serverVars, flow, adapterVars>>

NextServer ==
    \/ \E tool \in ToolPool : Register(tool)
    \/ Listen
    \/ \E body \in PostedBodies, outcome \in Outcomes : Post(body, outcome)

SpecServer == Init /\ [][NextServer]_vars

(***************************************************************************)
(* SpecAdapter: generateWithTools('gemini', ...) applied to every text of  *)
(* at most MaxTextLen tokens.                                              *)
(***************************************************************************)
InitAdapter ==
    /\ tools = <<>>
    /\ registered = <<>>
    /\ listening = FALSE
    /\ configured \in {c \in Configs : c.openai}
    /\ srvReq = NoRequest
    /\ srvHttp = NoHttp
    /\ srvRun = NoRun
    /\ listed = NotListed
    /\ flow = [r \in Reqs |-> IdleFlow]
    /\ geminiText \in Texts
    /\ generated = NotGenerated

Generate(userMessage, answer) ==
    /\ generated = NotGenerated
    /\ generated' = GenerateWithTools(configured, userMessage, answer, geminiText)
    /\ UNCHANGED <<serverVars, logVars, flow, geminiText>>

NextAdapter == \E userMessage \in UserMessages, answer \in GeminiAnswers : Generate(userMessage, answer)

SpecAdapter == InitAdapter /\ [][NextAdapter]_vars

(***************************************************************************)
(* Spec: the deployed system.                                              *)
(***************************************************************************)
\* The server module's top level: the four registrations, then listen.
Startup ==
    /\ ~listening
    /\ tools' = AddTool(AddTool(AddTool(AddTool(tools, Registrations[1]),
                    Registrations[2]), Registrations[3]), Registrations[4])
    /\ registered' = registered \o Registrations
    /\ listening' = TRUE
    /\ UNCHANGED <<configured, logVars, flow, adapterVars>>

\* The request whose fetch is pending.
LastRequest(f) == f.requests[Len(f.requests)]

\* getSanitizedTextStreamAction(data)
Submit(r, data) ==
    /\ flow[r].pc = "idle"
    /\ flow' = [flow EXCEPT ![r] = Begin(data)]
    /\ UNCHANGED <<serverVars, logVars, adapterVars>>

\* Faulty variant of Connected: the progress callback is shared, so the step
\* is written to the stream of every request in flight.
ConnectedShared(r) ==
    /\ flow[r].pc = "connecting"
    /\ flow' = [q \in Reqs |->
                    IF q = r THEN AfterConnect(flow[r])
                    ELSE IF flow[q].pc \in {"idle", "done"} THEN flow[q]
                    ELSE Emit(flow[q], "mcp_connect_finish")]
    /\ UNCHANGED <<serverVars, logVars, adapterVars>>

\* await client.connect() settles.
Connected(r) ==
    /\ flow[r].pc = "connecting"
    /\ flow' = [flow EXCEPT ![r] = AfterConnect(flow[r])]
    /\ UNCHANGED <<serverVars, logVars, adapterVars>>

ListToolsSettles(r, net) ==
    /\ flow[r].pc = "listing"
    /\ \E http \in {Fetch(net, listening, tools, LastRequest(flow[r]), configured,
                            [kind |-> "empty"])} :
            flow' = [flow EXCEPT ![r] = AfterListTools(flow[r], http)]
    /\ UNCHANGED <<serverVars, logVars, adapterVars>>

SelectionSettles(r, sel) ==
    /\ flow[r].pc = "selecting"
    /\ flow' = [flow EXCEPT ![r] = AfterSelection(flow[r], sel)]
    /\ UNCHANGED <<serverVars, logVars, adapterVars>>

CallToolSettles(r, net, outcome) ==
    /\ flow[r].pc = "calling"
    /\ \E http \in {Fetch(net, listening, tools, LastRequest(flow[r]), configured, outcome)} :
            flow' = [flow EXCEPT ![r] = AfterCallTool(flow[r], http)]
    /\ UNCHANGED <<serverVars, logVars, adapterVars>>

Next ==
    \/ Startup
    \/ \E r \in Reqs, data \in Inputs : Submit(r, data)
    \/ \E r \in Reqs : Connected(r)
    \/ \E r \in Reqs, net \in NetOutcomes : ListToolsSettles(r, net)
    \/ \E r \in Reqs, sel \in Selections : SelectionSettles(r, sel)
    \/ \E r \in Reqs, net \in NetOutcomes, outcome \in Outcomes : CallToolSettles(r, net, outcome)

Spec == Init /\ [][Next]_vars

\* Every outbound call of a request eventually returns or fails, and the
\* continuation of the await then runs: connect, the tools/list fetch, the
\* selection call and the tools/call fetch each settle.
Fairness ==
    \A r \in Reqs :
        /\ WF_vars(Connected(r))
        /\ WF_vars(\E net \in NetOutcomes : ListToolsSettles(r, net))
        /\ WF_vars(\E sel \in Selections : SelectionSettles(r, sel))
        /\ WF_vars(\E net \in NetOutcomes, outcome \in Outcomes :
                        CallToolSettles(r, net, outcome))

SpecLive == Init /\ [][Next]_vars /\ Fairness

(***************************************************************************)
(* Properties of the dispatch server (checked under SpecServer).           *)
(***************************************************************************)
Handled == srvReq # NoRequest

IsError(response) == DOMAIN response = {"error"}
IsResult(response) == DOMAIN response = {"result"}

RegisteredNames == {registered[i].name : i \in 1..Len(registered)}

\* The request names a tool no addTool call was given.
UnknownToolRequest ==
    /\ Handled
    /\ srvReq.method = "tools/call"
    /\ srvReq.params.defined
    /\ srvReq.params.name \notin RegisteredNames

UnknownMethodRequest ==
    /\ Handled
    /\ srvReq.method \notin {"tools/list", "tools/call"}

MalformedRequest ==
    /\ Handled
    /\ \/ srvReq.method = Undefined
       \/ srvReq.method = "tools/call" /\ ~srvReq.params.defined

\* C1: a tools/call naming an unregistered tool is answered with an error
\* carrying the tool-not-found code, and the Executor is not invoked for it
\* (so no generation call is made either).
C1_UnknownToolNotExecuted ==
    UnknownToolRequest =>
        /\ srvHttp.status = 200
        /\ IsError(srvHttp.body)
        /\ srvHttp.body.error.code = ToolNotFoundCode
        /\ srvRun.executed = <<>>

C1_Witness ==
    /\ UnknownToolRequest
    /\ Len(tools) > 0
    /\ srvReq.params.arguments.defined
    /\ IsError(srvHttp.body)

\* The kind of failure behind an error response of handleRequest.
ErrorKind(body, run) ==
    IF ~IsError(run.response) THEN "none"
    ELSE IF run.executed # <<>> THEN "executor-failure"
    ELSE IF body.method \notin {"tools/list", "tools/call"} THEN "unknown-method"
    ELSE IF body.method = "tools/call" /\ body.params.defined
            /\ body.params.name \notin RegisteredNames THEN "unknown-tool"
    ELSE "other"

ClaimedKinds == {"unknown-tool", "unknown-method", "executor-failure"}

\* C2: the error codes of an unknown tool, an unknown method and an Executor
\* failure are pairwise different: whenever the last request and any other
\* request the server could be sent fail in two different of these ways,
\* their error codes differ.
C2_ErrorCodesDistinguishable ==
    Handled =>
        \A body \in PostedBodies, outcome \in Outcomes :
            LET other == HandleRequest(tools, body, configured, outcome)
                k1 == ErrorKind(srvReq, srvRun)
                k2 == ErrorKind(body, other)
            IN  (k1 \in ClaimedKinds /\ k2 \in ClaimedKinds /\ k1 # k2)
                    => srvRun.response.error.code # other.response.error.code

\* C3: every response of handleRequest has exactly one of result and error.
C3_ExactlyOneOfResultAndError ==
    Handled =>
        /\ ~srvRun.threw
        /\ IsResult(srvRun.response) \/ IsError(srvRun.response)
        /\ srvHttp.body = srvRun.response

\* An Executor failure on a registered tool: the catch clause answered.
C3_Witness ==
    /\ Handled
    /\ srvRun.executed # <<>>
    /\ IsError(srvRun.response)

\* C8: tools/list answers with a result whose descriptors are the registered
\* tools in registration order, and two consecutive tools/list results are
\* equal whatever requests were handled between them.
C8_ListAnswer ==
    /\ (Handled /\ srvReq.method = "tools/list") =>
            /\ srvHttp.status = 200
            /\ IsResult(srvHttp.body)
            /\ listed.seen
    /\ listed.seen => listed.tools = Descriptors(registered)

C8_ListIsRegistrationOrderAndStable ==
    /\ []C8_ListAnswer
    /\ [][(listed.seen /\ listed'.seen) => listed'.tools = listed.tools]_vars

\* A tools/list was answered, then a tools/call executed a tool.
C8_Witness ==
    /\ listed.seen
    /\ Len(listed.tools) >= 2
    /\ listed.tools[1].name # listed.tools[2].name
    /\ srvReq.method = "tools/call"
    /\ srvRun.executed # <<>>

\* C9: the names in the tools/list output are exactly the names passed to
\* addTool, each once: a duplicate registration is not kept beside the
\* earlier one.
C9_ListedNamesAreRegisteredSet ==
    listed.seen =>
        /\ {listed.tools[i].name : i \in 1..Len(listed.tools)} = RegisteredNames
        /\ \A i, j \in 1..Len(listed.tools) :
                listed.tools[i].name = listed.tools[j].name => i = j

\* C10: an unknown method and a malformed request (no method, or tools/call
\* without params) are answered with a method-not-found error, and
\* handleRequest does not throw.
C10_UnknownOrMalformedIsMethodNotFound ==
    (UnknownMethodRequest \/ MalformedRequest) =>
        /\ ~srvRun.threw
        /\ srvHttp.status = 200
        /\ IsError(srvHttp.body)
        /\ srvHttp.body.error.code = MethodNotFoundCode

\* The last request was a tools/call on a registered tool and the Executor
\* threw while serving it.
ExecutorFailed ==
    /\ Handled
    /\ srvReq.method = "tools/call"
    /\ srvRun.executed # <<>>
    /\ srvRun.executed[1].failed

\* handleRequest answered with an internal-error response; nothing escaped.
AnsweredInternalError ==
    /\ ~srvRun.threw
    /\ srvHttp.status = 200
    /\ IsError(srvHttp.body)
    /\ srvHttp.body.error.code = InternalErrorCode

\* C11 as stated: when the Executor fails during a tools/call on a
\* registered tool, handleRequest returns (does not throw) an error response
\* with the internal-error code whose message is the message of the
\* underlying failure.
C11_ExecutorFailureKeepsMessage ==
    ExecutorFailed =>
        /\ AnsweredInternalError
        /\ srvHttp.body.error.message = srvRun.executed[1].failure

\* C11 amended: the message is the message of the underlying failure when
\* that message is not empty, and "Internal error" when it is empty.
C11_ExecutorFailureKeepsNonEmptyMessage ==
    ExecutorFailed =>
        /\ AnsweredInternalError
        /\ srvHttp.body.error.message =
                IF srvRun.executed[1].failure = "" THEN "Internal error"
                ELSE srvRun.executed[1].failure

\* The generation call of a registered tool failed with a message, and the
\* server answered.
C11_Witness ==
    /\ ExecutorFailed
    /\ srvRun.executed[1].calls # <<>>
    /\ srvRun.executed[1].failure = "429 rate limit"
    /\ IsError(srvHttp.body)

\* The Executor invocations made for the last request.
Invocations == {srvRun.executed[i] : i \in 1..Len(srvRun.executed)}

\* The invocation could reach its provider: it was given an arguments
\* object, and names a provider whose client the ModelManager has built.
ProviderReachable(e) ==
    /\ e.args.defined
    /\ e.provider \in {"openai", "gemini"}
    /\ configured[e.provider]

\* C21 as stated: every invocation of executeTool makes exactly one outbound
\* generation call, whatever the provider and the configuration.
C21_ExactlyOneGenerationCall ==
    \A e \in Invocations : Len(e.calls) = 1

\* C21 amended: every invocation makes at most one generation call, none
\* after a failure; it makes exactly one when it was given an arguments
\* object and its provider is known and configured, and none otherwise (it
\* then throws before calling out).
C21_AtMostOneGenerationCall ==
    \A e \in Invocations :
        /\ Len(e.calls) <= 1
        /\ ProviderReachable(e) => Len(e.calls) = 1 /\ e.calls[1].provider = e.provider
        /\ ~ProviderReachable(e) => e.calls = <<>> /\ e.failed

\* An invocation for gemini made its one generation call, which failed.
C21_Witness ==
    \E e \in Invocations :
        /\ e.provider = "gemini"
        /\ Len(e.calls) = 1
        /\ e.calls[1].answer.kind = "throw"
        /\ e.failed

CanonicalNameSet == {CanonicalNames[i] : i \in 1..Len(CanonicalNames)}

\* The instruction the claim gives a tool name.
ClaimedInstruction(name) ==
    IF name \in CanonicalNameSet THEN SystemPrompts[name]
    ELSE SystemPrompts["general_sanitize"]

\* Whatever request is handled instead of the last one, with whatever
\* arguments and provider, a tool of the same name gets the same instruction.
InstructionFollowsNameOnly ==
    \A body \in PostedBodies, outcome \in Outcomes :
        \A e \in Invocations :
            \A i \in 1..Len(HandleRequest(tools, body, configured, outcome).executed) :
                HandleRequest(tools, body, configured, outcome).executed[i].tool = e.tool
                    => HandleRequest(tools, body, configured, outcome).executed[i].systemPrompt
                            = e.systemPrompt

\* C22: the instruction the Executor uses is a function of the tool name
\* only: the tool's own instruction for the four canonical names, the
\* general_sanitize instruction for every other registered name.
C22_InstructionByNameWithFallback ==
    /\ \A e \in Invocations : e.systemPrompt = ClaimedInstruction(e.tool)
    /\ InstructionFollowsNameOnly

\* What does hold of C22: the same, for every name except those every object
\* inherits a property for (such as "constructor"), for which the
\* instruction is that inherited value and not the general_sanitize
\* instruction.
C22_InstructionByNameWithFallbackUnlessInherited ==
    /\ \A e \in Invocations :
            /\ e.tool \notin InheritedNames => e.systemPrompt = ClaimedInstruction(e.tool)
            /\ e.tool \in InheritedNames => e.systemPrompt = InheritedValue(e.tool)
    /\ InstructionFollowsNameOnly

(***************************************************************************)
(* Properties of the end-to-end requests (checked under Spec).             *)
(***************************************************************************)
IsResultEvent(e) == DOMAIN e = {"result"}
IsErrorEvent(e) == DOMAIN e = {"error"}

Events(r) == flow[r].events
LastEvent(r) == Events(r)[Len(Events(r))]

Succeeded(r) == flow[r].pc = "done" /\ IsResultEvent(LastEvent(r))
Failed(r) == flow[r].pc = "done" /\ IsErrorEvent(LastEvent(r))

\* The tools/call bodies the flow posted.
ToolCallRequests(r) ==
    {i \in 1..Len(flow[r].requests) : flow[r].requests[i].method = "tools/call"}
ListRequests(r) ==
    {i \in 1..Len(flow[r].requests) : flow[r].requests[i].method = "tools/list"}

\* The first n events are the first n step names, in order.
StepPrefix(r, n) ==
    /\ n <= Len(Events(r))
    /\ \A i \in 1..n : Events(r)[i] = [step |-> StepNames[i]]

\* The stream of r so far: a prefix of the six steps, closed by at most one
\* terminal event: a result after all six, an error after fewer.
StreamShape(r) ==
    \E n \in 0..Len(StepNames) :
        /\ StepPrefix(r, n)
        /\ \/ Len(Events(r)) = n /\ flow[r].pc # "done"
           \/ /\ Len(Events(r)) = n + 1
              /\ flow[r].pc = "done"
              /\ \/ IsResultEvent(Events(r)[n + 1]) /\ n = Len(StepNames)
                 \/ IsErrorEvent(Events(r)[n + 1]) /\ n < Len(StepNames)

\* C4: a request's stream carries the six step names once each and in
\* order and then one result, or a strict prefix of them and then one error;
\* never both a result and an error, and nothing after the terminal event.
C4_StreamIsStepsThenOneTerminal ==
    /\ [](\A r \in Reqs : StreamShape(r))
    /\ [][\A r \in Reqs : flow[r].pc = "done" => flow'[r] = flow[r]]_vars

\* One request succeeded while the other failed inside tools/call.
C4_Witness ==
    /\ Succeeded("r1")
    /\ Len(Events("r1")) = 7
    /\ Failed("r2")
    /\ Len(Events("r2")) = 6
    /\ Events("r2")[5] = [step |-> "tool_exec_start"]

\* C5: the terminal result event of a successful request carries
\* sanitizedText, toolUsed and modelUsed.
C5_ResultCarriesThreeFields ==
    \A r \in Reqs :
        Succeeded(r) =>
            {"sanitizedText", "toolUsed", "modelUsed"} \subseteq DOMAIN LastEvent(r).result

\* C6: whatever arguments the selection returned, the Executor is handed the
\* caller's input text, with the fixed instruction of the selected tool.
C6_ExecutorGetsCallerText ==
    \A r \in Reqs :
        \A i \in 1..Len(flow[r].executed) :
            /\ flow[r].executed[i].args.defined
            /\ flow[r].executed[i].args.text = flow[r].raw.text
            /\ flow[r].executed[i].tool = flow[r].call.name
            /\ flow[r].executed[i].systemPrompt = SystemPrompts[flow[r].call.name]

\* C7: a request makes at most one selection call and posts at most one
\* tools/call (and one tools/list), exactly one of each when it succeeds; a
\* failure is never followed by a second attempt.
C7_OneSelectionOneToolCall ==
    \A r \in Reqs :
        /\ flow[r].selections <= 1
        /\ Cardinality(ToolCallRequests(r)) <= 1
        /\ Cardinality(ListRequests(r)) <= 1
        /\ Len(flow[r].executed) <= 1
        /\ Succeeded(r) =>
                /\ flow[r].selections = 1
                /\ Cardinality(ToolCallRequests(r)) = 1
        /\ Cardinality(ToolCallRequests(r)) = 1 => flow[r].selections = 1

\* A request whose tools/call failed in the Executor has ended, after one
\* selection and one tools/call.
C7_Witness ==
    \E r \in Reqs :
        /\ Failed(r)
        /\ flow[r].selections = 1
        /\ Cardinality(ToolCallRequests(r)) = 1
        /\ Len(flow[r].executed) = 1

\* The selection call of r returned a response without any tool call.
NoToolSelected(r) ==
    /\ flow[r].selection.kind = "response"
    /\ flow[r].selection.tool_calls = <<>>

HasEvent(r, e) == \E i \in 1..Len(Events(r)) : Events(r)[i] = e

\* C12: when the selection returns no tool invocation, the request ends
\* with the terminal error of the decision: no tool is chosen by default,
\* tool_exec_start is never emitted and no tools/call is posted.
C12_NoToolCallIsDecisionError ==
    \A r \in Reqs :
        NoToolSelected(r) =>
            /\ Failed(r)
            /\ LastEvent(r) = [error |-> "Model did not call a tool"]
            /\ flow[r].call = NoCall
            /\ ~HasEvent(r, [step |-> "tool_exec_start"])
            /\ ToolCallRequests(r) = {}
            /\ flow[r].executed = <<>>

\* A selection without tool calls was returned to a request that had listed
\* the four tools, while the other request was still running.
C12_Witness ==
    /\ NoToolSelected("r1")
    /\ Len(flow["r1"].toolList) = 4
    /\ HasEvent("r1", [step |-> "select_tool"])
    /\ flow["r2"].pc = "calling"

\* C13: the provider named by the caller (data.modelProvider) is the
\* provider carried in the params of the request's tools/call and the
\* provider the Executor generates with.
C13_CallerProviderReachesExecutor ==
    \A r \in Reqs :
        /\ \A i \in ToolCallRequests(r) :
                flow[r].requests[i].params.provider = flow[r].raw.modelProvider
        /\ \A i \in 1..Len(flow[r].executed) :
                flow[r].executed[i].provider = flow[r].raw.modelProvider

\* C16: in a successful request, toolUsed is the tool name sent in the
\* tools/call request (and the tool the server executed), which is the name
\* of the first tool call the selection returned.
C16_ToolUsedIsSelectedAndSent ==
    \A r \in Reqs :
        Succeeded(r) =>
            /\ flow[r].selection.kind = "response"
            /\ flow[r].selection.tool_calls # <<>>
            /\ LastEvent(r).result.toolUsed = flow[r].selection.tool_calls[1].name
            /\ \A i \in ToolCallRequests(r) :
                    flow[r].requests[i].params.name = LastEvent(r).result.toolUsed
            /\ \A i \in 1..Len(flow[r].executed) :
                    flow[r].executed[i].tool = LastEvent(r).result.toolUsed

\* A request succeeded with anonymize_pii, picked from a selection that
\* called one tool.
C16_Witness ==
    \E r \in Reqs :
        /\ Succeeded(r)
        /\ LastEvent(r).result.toolUsed = "anonymize_pii"
        /\ Cardinality(ToolCallRequests(r)) = 1
        /\ Len(flow[r].executed) = 1

\* How the generation calls the Executor made for r were answered.
GenerationAnswers(r) ==
    UNION {{flow[r].executed[i].calls[j].answer.kind :
                j \in 1..Len(flow[r].executed[i].calls)} :
            i \in 1..Len(flow[r].executed)}

\* C17: when the generation call returns without content, the tools/call is
\* answered with an internal-error response and the request ends with a
\* terminal error: it is never reported as a success.
C17_EmptyGenerationIsAnError ==
    \A r \in Reqs :
        "empty" \in GenerationAnswers(r) =>
            /\ Failed(r)
            /\ flow[r].replies[Len(flow[r].replies)].error # <<>>
            /\ flow[r].replies[Len(flow[r].replies)].error[1].code = InternalErrorCode

\* The i-th fetch of r was answered unsuccessfully by the server: a non-OK
\* status, or a body carrying an error.
ServerRefused(r, i) ==
    /\ i <= Len(flow[r].replies)
    /\ flow[r].replies[i].kind = "response"
    /\ \/ ~(flow[r].replies[i].status >= 200 /\ flow[r].replies[i].status <= 299)
       \/ flow[r].replies[i].error # <<>>

\* The message the stream must end with after such an answer.
RefusalMessage(reply) ==
    IF reply.status >= 200 /\ reply.status <= 299 THEN reply.error[1].message
    ELSE "HTTP error! status: " \o ToString(reply.status)

\* C18: when the server answers tools/list or tools/call with an error
\* response or a non-OK status, the request ends with a terminal error
\* (the server's error message when it sent one), right after the step that
\* preceded the fetch: no later step, no further fetch and no result.
C18_ServerErrorEndsTheStream ==
    \A r \in Reqs :
        \A i \in 1..Len(flow[r].replies) :
            ServerRefused(r, i) =>
                /\ Failed(r)
                /\ i = Len(flow[r].replies)
                /\ Len(flow[r].requests) = i
                /\ LastEvent(r) = [error |-> RefusalMessage(flow[r].replies[i])]
                /\ Len(Events(r)) = (IF i = 1 THEN 3 ELSE 5) + 1
                /\ StepPrefix(r, IF i = 1 THEN 3 ELSE 5)
                /\ ~HasEvent(r, [step |-> "tool_exec_finish"])

\* One request ended on a 503 to tools/list, the other on the error
\* response of a tools/call whose generation call failed.
C18_Witness ==
    /\ ServerRefused("r1", 1)
    /\ flow["r1"].replies[1].status = 503
    /\ Len(flow["r2"].replies) = 2
    /\ ServerRefused("r2", 2)
    /\ flow["r2"].replies[2].error # <<>>
    /\ flow["r2"].replies[2].error[1].code = InternalErrorCode
    /\ Len(flow["r2"].executed) = 1

\* The names in the tool list r received.
ListedNames(r) == {flow[r].toolList[i].name : i \in 1..Len(flow[r].toolList)}

\* C19: every tools/call posted names a tool of the list the request's
\* tools/list returned, with arguments that are an object holding a string
\* text; a selection naming another tool, or carrying other arguments, ends
\* the request before any tools/call is posted.
C19_ToolCallIsListedAndWellShaped ==
    \A r \in Reqs :
        \A i \in ToolCallRequests(r) :
            /\ flow[r].requests[i].params.name \in ListedNames(r)
            /\ flow[r].requests[i].params.arguments.defined
            /\ flow[r].requests[i].params.arguments.text # Undefined

\* The step taken by r is one step of r's own pipeline: its new state is
\* computed from its own state, and from the answer to its own pending call.
OwnStep(r) ==
    \/ /\ flow[r].pc = "idle"
       /\ \E data \in Inputs : flow'[r] = Begin(data)
    \/ /\ flow[r].pc = "connecting"
       /\ flow'[r] = AfterConnect(flow[r])
    \/ /\ flow[r].pc = "listing"
       /\ \E net \in NetOutcomes :
            flow'[r] = AfterListTools(flow[r],
                            Fetch(net, listening, tools, LastRequest(flow[r]),
                                  configured, [kind |-> "empty"]))
    \/ /\ flow[r].pc = "selecting"
       /\ \E sel \in Selections : flow'[r] = AfterSelection(flow[r], sel)
    \/ /\ flow[r].pc = "calling"
       /\ \E net \in NetOutcomes, outcome \in Outcomes :
            flow'[r] = AfterCallTool(flow[r],
                            Fetch(net, listening, tools, LastRequest(flow[r]),
                                  configured, outcome))

\* C15: however two concurrent requests interleave, a step of one request
\* leaves the other's stream and state alone and is a step of its own
\* pipeline (so each stream carries its own events, in the order the request
\* produces alone, and its result depends on its own input and the answers
\* to its own calls); and no request handled by the server changes the tool
\* registry.
C15_ConcurrentRequestsAreIndependent ==
    /\ [][\A r \in Reqs :
            flow'[r] # flow[r] =>
                /\ \A q \in Reqs \ {r} : flow'[q] = flow[q]
                /\ OwnStep(r)
                /\ tools' = tools]_vars
    /\ [](\A r \in Reqs : StreamShape(r))
    /\ [][listening => tools' = tools]_vars

\* Two requests with different inputs are in flight at different places:
\* one waits for its tools/call, the other has ended with a result.
C15_Witness ==
    /\ flow["r1"].pc = "calling"
    /\ flow["r1"].raw.text = "Jo"
    /\ Succeeded("r2")
    /\ flow["r2"].raw.text = "John Smith"
    /\ LastEvent("r2").result.toolUsed = "anonymize_pii"

\* The result payload the action declares for its stream: sanitizedText,
\* toolUsed and modelUsed.
CompleteResult(e) ==
    /\ IsResultEvent(e)
    /\ DOMAIN e.result = {"sanitizedText", "toolUsed", "modelUsed"}

Terminals(r) ==
    {i \in 1..Len(Events(r)) : IsResultEvent(Events(r)[i]) \/ IsErrorEvent(Events(r)[i])}

\* Every submitted request ends, given that every outbound call settles.
C14_EveryRequestEnds ==
    \A r \in Reqs : (flow[r].pc # "idle") ~> (flow[r].pc = "done")

\* C14: a request that has ended has delivered exactly one terminal event,
\* its last, which is a complete result payload or an error string (and,
\* every outbound call settling, each request does end: C14_EveryRequestEnds).
C14_OneCompleteTerminal ==
    \A r \in Reqs :
        /\ flow[r].pc = "done" =>
                /\ Terminals(r) = {Len(Events(r))}
                /\ CompleteResult(LastEvent(r)) \/ IsErrorEvent(LastEvent(r))
        /\ flow[r].pc # "done" => Terminals(r) = {}

(***************************************************************************)
(* Properties of generateWithTools (checked under SpecAdapter).            *)
(***************************************************************************)
CountOf(text, i, j, tok) == Cardinality({k \in i..j : text[k] = tok})

\* The ends of the balanced brace-delimited structures that start at i.
BalancedEnds(text, i) ==
    {j \in i..Len(text) :
        text[i] = LBrace /\ CountOf(text, i, j, LBrace) = CountOf(text, i, j, RBrace)}

\* The first balanced brace-delimited structure of the text: the one that
\* starts earliest, up to where its braces balance.
BalancedStarts(text) == {i \in 1..Len(text) : BalancedEnds(text, i) # {}}

FirstBalanced(text) ==
    IF BalancedStarts(text) = {} THEN NoMatch
    ELSE Match(SubSeq(text, Min(BalancedStarts(text)),
                      Min(BalancedEnds(text, Min(BalancedStarts(text))))))

\* The tools offered to the model.
OfferedTools == {CanonicalNames[i] : i \in 1..Len(CanonicalNames)}

\* The model answered, and generateWithTools has ended.
AdapterAnswered ==
    \/ generated.kind = "call"
    \/ generated.kind = "throw" /\ generated.answered

\* The text holds a usable decision: its first balanced structure parses
\* and names an offered tool.
UsableDecision(text) ==
    /\ FirstBalanced(text).found
    /\ IsJsonObject(FirstBalanced(text).str)
    /\ JsonObject(FirstBalanced(text).str).tool \in OfferedTools

\* C20: the tool call generateWithTools returns for gemini is the parse of
\* the first balanced brace-delimited structure of the model's text and
\* names an offered tool; when there is no such structure, it does not
\* parse or it names no offered tool, generateWithTools throws and returns
\* no tool call.
C20_AdapterReturnsFirstBalancedOrThrows ==
    AdapterAnswered =>
        IF UsableDecision(geminiText)
        THEN generated = ToolCallOf(JsonObject(FirstBalanced(geminiText).str).tool,
                            StringifyArguments(JsonObject(FirstBalanced(geminiText).str).arguments))
        ELSE generated.kind = "throw"

\* The selection call of r returned more than one tool call.
SeveralToolsSelected(r) ==
    /\ flow[r].selection.kind = "response"
    /\ Len(flow[r].selection.tool_calls) > 1

\* C23: when the selection returns more than one tool call, the request
\* posts a tools/call for the first one only and reports its name as
\* toolUsed; the later ones cause no request, no execution and no event.
C23_FirstToolCallWins ==
    \A r \in Reqs :
        SeveralToolsSelected(r) =>
            /\ flow[r].call = flow[r].selection.tool_calls[1]
            /\ Cardinality(ToolCallRequests(r)) = 1
            /\ \A i \in ToolCallRequests(r) :
                    /\ flow[r].requests[i].params.name = flow[r].selection.tool_calls[1].name
                    /\ flow[r].requests[i].params.arguments
                            = JSONParse(flow[r].selection.tool_calls[1].arguments).value
            /\ Len(flow[r].executed) <= 1
            /\ \A i \in 1..Len(flow[r].executed) :
                    flow[r].executed[i].tool = flow[r].selection.tool_calls[1].name
            /\ Succeeded(r) =>
                    LastEvent(r).result.toolUsed = flow[r].selection.tool_calls[1].name
            /\ StreamShape(r)
            /\ Len(Events(r)) <= Len(StepNames) + 1

\* A request whose selection called general_sanitize and then anonymize_pii
\* has succeeded.
C23_Witness ==
    \E r \in Reqs :
        /\ SeveralToolsSelected(r)
        /\ flow[r].selection.tool_calls[1].name # flow[r].selection.tool_calls[2].name
        /\ Succeeded(r)
        /\ Len(flow[r].executed) = 1

\* The input r was submitted with fails the input schema.
InvalidInput(r) == flow[r].pc # "idle" /\ ~InputSchemaParse(flow[r].raw).ok

\* C24: a request whose input fails the input schema ends with a terminal
\* error, makes no selection call and posts no tools/call; and it posts
\* nothing at all to the server, the input being validated first.
C24_InvalidInputReachesNobody ==
    \A r \in Reqs :
        InvalidInput(r) =>
            /\ flow[r].pc = "done" => Failed(r)
            /\ flow[r].selections = 0
            /\ flow[r].selection.kind = "none"
            /\ ToolCallRequests(r) = {}
            /\ flow[r].requests = <<>>

\* How the fetch behind the i-th reply of r failed, as callTool throws it.
FetchFailure(reply) ==
    IF reply.kind = "rejected" THEN "fetch failed" ELSE RefusalMessage(reply)

FetchFailed(r, i) ==
    /\ i <= Len(flow[r].replies)
    /\ flow[r].replies[i].kind = "rejected" \/ ServerRefused(r, i)

\* C25: once tool_exec_start is emitted, a tools/call for the selected tool
\* is posted, and the event that follows tool_exec_start is tool_exec_finish,
\* after a successful answer to that tools/call, or the terminal error of
\* that tools/call.
C25_ToolExecStartIsFollowedByToolsCall ==
    \A r \in Reqs :
        HasEvent(r, [step |-> "tool_exec_start"]) =>
            /\ Cardinality(ToolCallRequests(r)) = 1
            /\ \A i \in ToolCallRequests(r) :
                    flow[r].requests[i].params.name = flow[r].call.name
            /\ Len(Events(r)) > 5 =>
                    \/ /\ Events(r)[6] = [step |-> "tool_exec_finish"]
                       /\ Len(flow[r].replies) = 2
                       /\ ~FetchFailed(r, 2)
                    \/ /\ FetchFailed(r, 2)
                       /\ Events(r)[6] = [error |-> FetchFailure(flow[r].replies[2])]

====
